---- MODULE Spec2Model ----
(***************************************************************************)
(* Model of the icon pipeline of GitAccountSwitcher:                       *)
(*   generate_icon.py    create_icon, apply_macos_rounding                 *)
(*   process_ai_icon.py  make_transparent, apply_macos_rounding            *)
(*                                                                         *)
(* An RGBA image is a record [w, h, px, ops]. A raster image holds its     *)
(* pixels: px is the row-major pixel data (px[y + 1][x + 1] is the pixel   *)
(* at (x, y)), a pixel is <<r, g, b, a>>, and ops is empty. The 1024-pixel *)
(* images of the two main() functions are kept as the list ops of the      *)
(* operations that made them, and their pixels are computed on demand.     *)
(* The Pillow calls the scripts make are modelled by what they do to the   *)
(* pixel data, including the exceptions they raise.                        *)
(***************************************************************************)
EXTENDS Integers, Sequences, FiniteSets, TLC

VARIABLES
    img,    \* the image the script holds (img / master in the main functions)
    pre,    \* the image as it was before the last step
    hist    \* the steps made so far: [op, arg, status, radius]

vars == <<img, pre, hist>>

----------------------------------------------------------------------------
(* Bounds of the model *)

\* Largest width, height and size argument that is enumerated exhaustively.
MaxSize == 5
\* Source images are generated from the palette at offsets 0..MaxSeed.
MaxSeed == 1
\* Number of calls made on one image.
MaxCalls == 2

(* Program constants *)

\* sizes_1x contains 512; the size the corner-transparency property names.
IconSize512 == 512
\* The reference resolution create_icon scales from, and the master size.
ReferenceSize == 1024
\* make_transparent's default tolerance, and the one main() passes.
DefaultTolerance == 30
MainTolerance == 40

Min(a, b) == IF a <= b THEN a ELSE b
Abs(n) == IF n < 0 THEN -n ELSE n

----------------------------------------------------------------------------
(* Pillow's filled ellipse (Draw.c: quarter_init, quarter_next,            *)
(* ellipse_next, ellipseNew), as used by ImageDraw.ellipse and by the      *)
(* corner pie slices of ImageDraw.rounded_rectangle.                       *)
(* The walk works in doubled coordinates centred on the ellipse: a and b   *)
(* are the bounding box's width and height, x and y have their parity.     *)

\* quarter_delta: deviation of a lattice point from the ellipse. For a
\* circle the common factor a * a is divided out; the order of the
\* deviations, which is all quarter_next uses, is the same.
QuarterDelta(a, b, x, y) ==
    IF a = b THEN Abs(y * y + x * x - a * a)
    ELSE Abs(a * a * y * y + b * b * x * x - a * a * b * b)

\* quarter_next: one step of the walk from the point st = [cx, cy] towards
\* the end point (a % 2, b); done is quarter_state.finished.
\* rows[i] is the x of the first point visited on row y = (b % 2) + 2 * (i - 1),
\* i.e. the right end of the filled segment of that row (ellipse_next's r).
quarter_next(a, b, st) ==
    LET cx   == st.cx
        cy   == st.cy
        rows == IF Len(st.rows) < (cy - (b % 2)) \div 2 + 1
                THEN Append(st.rows, cx) ELSE st.rows
        up   == QuarterDelta(a, b, cx, cy + 2)
        diag == QuarterDelta(a, b, cx - 2, cy + 2)
        left == QuarterDelta(a, b, cx - 2, cy)
        d1   == IF cx > 1 /\ up > diag THEN diag ELSE up
        takeLeft == cx > 1 /\ d1 > left
        takeDiag == cx > 1 /\ up > diag /\ ~takeLeft
    IN  IF cx = (a % 2) /\ cy = b
        THEN [cx |-> cx, cy |-> cy, rows |-> rows, done |-> TRUE]
        ELSE [cx |-> IF takeLeft \/ takeDiag THEN cx - 2 ELSE cx,
              cy |-> IF takeLeft THEN cy ELSE cy + 2,
              rows |-> rows, done |-> FALSE]

\* At most n calls of quarter_next.
RECURSIVE QuarterSteps(_, _, _, _)
QuarterSteps(a, b, st, n) ==
    IF n = 0 \/ st.done THEN st
    ELSE QuarterSteps(a, b, quarter_next(a, b, st), n - 1)

\* quarter_next called until the walk has finished (in runs of 32 calls,
\* which keeps the evaluation's nesting shallow).
RECURSIVE QuarterWalk(_, _, _)
QuarterWalk(a, b, st) ==
    IF st.done THEN st.rows
    ELSE QuarterWalk(a, b, QuarterSteps(a, b, st, 32))

\* quarter_init and the walk: the right ends of the rows of the ellipse
\* inscribed in an a x b box.
QuarterRows(a, b) ==
    QuarterWalk(a, b, [cx |-> a, cy |-> b % 2, rows |-> <<>>, done |-> FALSE])

\* ellipseNew with fill: pixel (x, y) is painted iff it lies on the segment
\* [-r, r] of its row, mapped back by x0 + (X + a) / 2, y0 + (Y + b) / 2.
EllipseCovers(x0, y0, x1, y1, rows, x, y) ==
    LET a == x1 - x0
        b == y1 - y0
        Y == 2 * (y - y0) - b
        r == rows[(Abs(Y) - (b % 2)) \div 2 + 1]
    IN  /\ x0 <= x /\ x <= x1 /\ y0 <= y /\ y <= y1
        /\ x0 + (a - r) \div 2 <= x
        /\ x <= x0 + (a + r) \div 2

----------------------------------------------------------------------------
(* Images *)

\* A raster image holds its pixels; any other image holds the operations
\* that made it.
IsRaster(im) == im.ops = <<>>

\* Image.getpixel((x, y)) on a raster image.
getpixel(im, x, y) == im.px[y + 1][x + 1]

\* The pixels source images are made of: near white, grey, a translucent
\* github_dark, the two values that sit exactly on 255 - tolerance for the
\* tolerances in use, and transparent white.
Palette ==
    << <<250, 250, 250, 255>>,
       <<200, 200, 200, 255>>,
       <<36, 41, 47, 128>>,
       <<255 - MainTolerance, 255, 255, 200>>,
       <<255, 255, 255 - DefaultTolerance, 255>>,
       <<255, 255, 255, 0>> >>

\* The pixel at (x, y) of the pattern that runs through the palette from
\* offset seed.
pattern_pixel(seed, x, y) == Palette[((x + 3 * y + seed) % Len(Palette)) + 1]

\* A w x h RGBA image, as Image.open returns it, filled with that pattern.
SourceImage(w, h, seed) ==
    [w |-> w, h |-> h,
     px |-> [y \in 1..h |-> [x \in 1..w |-> pattern_pixel(seed, x - 1, y - 1)]],
     ops |-> <<>>]

\* Every pixel of the image is the same.
Uniform(im) ==
    /\ im.w >= 1 /\ im.h >= 1
    /\ \A y \in 1..im.h : \A x \in 1..im.w : im.px[y][x] = im.px[1][1]

\* MULDIV255 (ImagingUtils.h): a * b / 255, rounded.
MULDIV255(a, b) ==
    LET tmp == a * b + 128
    IN  ((tmp \div 256) + tmp) \div 256

\* convert('RGBa') (rgbA2rgba): the colour channels are multiplied by alpha.
premultiply(p) ==
    <<MULDIV255(p[1], p[4]), MULDIV255(p[2], p[4]), MULDIV255(p[3], p[4]), p[4]>>

\* convert('RGBA') of an RGBa pixel (rgba2rgbA): the colour channels are
\* divided by alpha, and kept as they are when alpha is 0 or 255.
unpremultiply(p) ==
    IF p[4] = 255 \/ p[4] = 0 THEN p
    ELSE <<Min(255, (255 * p[1]) \div p[4]), Min(255, (255 * p[2]) \div p[4]),
           Min(255, (255 * p[3]) \div p[4]), p[4]>>

\* img.resize((w, h), Image.Resampling.LANCZOS) on a uniform RGBA image.
\* Image.resize converts RGBA to premultiplied alpha, resamples and converts
\* back; the filter's weights add up to 1, so resampling a uniform image
\* gives its one pixel value at every place of the new size.
resize(im, w, h) ==
    [w |-> w, h |-> h, px |-> <<>>,
     ops |-> << [kind |-> "resize", name |-> "LANCZOS",
                 fill |-> unpremultiply(premultiply(im.px[1][1]))] >>]

----------------------------------------------------------------------------
(* apply_macos_rounding (generate_icon.py and process_ai_icon.py: the two  *)
(* copies differ in comments only)                                         *)

\* corner_radius as it would be with round() in place of int().
corner_radius_rounded(size) == (size * 2237 + 5000) \div 10000

\* corner_radius = int(size * 0.2237): int() truncates, and for the sizes
\* below 10000 the product is never within a float rounding error of an
\* integer, so the value is the integer quotient.
corner_radius(size) == (size * 2237) \div 10000

\* rounded_rectangle as it would be with the radius left out: the whole box
\* is filled.
rounded_rectangle_square(size, radius) ==
    [w |-> size, h |-> size,
     px |-> [y \in 1..size |-> [x \in 1..size |-> 255]]]

\* The quarter walk of the corners of the box [0, 0, size - 1, size - 1]:
\* that of the whole box when the corners join, else that of a pie slice.
corner_rows(size, radius) ==
    IF 2 * radius >= size - 2 THEN QuarterRows(size - 1, size - 1)
    ELSE QuarterRows(2 * radius, 2 * radius)

\* Whether rounded_rectangle fills the pixel (x, y). ImageDraw draws the
\* box as an ellipse when the corners join (sizes 1 and 2), as a rectangle
\* when the radius is 0, and otherwise as four corner pie slices of
\* diameter d = 2 * radius plus the middle, left and right rectangles.
rounded_rectangle_covers(size, radius, rows, x, y) ==
    LET x1   == size - 1
        d    == 2 * radius
        r    == radius
        InCorner(bx, by) == EllipseCovers(bx, by, bx + d, by + d, rows, x, y)
    IN  IF d >= x1 - 1 THEN EllipseCovers(0, 0, x1, x1, rows, x, y)
        ELSE IF d = 0 THEN TRUE
        ELSE \/ r + 1 <= x /\ x <= x1 - r - 1
             \/ r + 1 <= y /\ y <= x1 - r - 1
             \/ x <= r /\ y <= r /\ InCorner(0, 0)
             \/ x >= x1 - r /\ y <= r /\ InCorner(x1 - d, 0)
             \/ x >= x1 - r /\ y >= x1 - r /\ InCorner(x1 - d, x1 - d)
             \/ x <= r /\ y >= x1 - r /\ InCorner(0, x1 - d)

\* mask_draw.rounded_rectangle([0, 0, size - 1, size - 1], radius, fill=255)
\* on Image.new('L', (size, size), 0), for size >= 1.
rounded_rectangle(size, radius) ==
    LET rows == corner_rows(size, radius)
    IN  [w |-> size, h |-> size,
         px |-> [y \in 1..size |-> [x \in 1..size |->
                    IF rounded_rectangle_covers(size, radius, rows, x - 1, y - 1)
                    THEN 255 ELSE 0]]]

\* The combination as it would be if the mask replaced the alpha.
new_alpha_value_mask_only(orig_alpha, mask_alpha) == mask_alpha

\* The combination as it would be if alpha and mask were averaged.
new_alpha_value_blend(orig_alpha, mask_alpha) == (orig_alpha + mask_alpha) \div 2

\* new_alpha.putpixel((x, y), min(orig_alpha, mask_alpha))
new_alpha_value(orig_alpha, mask_alpha) == Min(orig_alpha, mask_alpha)

\* putalpha as it would be if fully transparent pixels lost their colour.
putalpha_pixel_premultiplied(p, alpha) ==
    IF alpha = 0 THEN <<0, 0, 0, 0>> ELSE <<p[1], p[2], p[3], alpha>>

\* img.putalpha(new_alpha): band 3 of the pixel is replaced, r, g, b stay.
putalpha_pixel(p, alpha) == <<p[1], p[2], p[3], alpha>>

\* a.getpixel((x, y)) for x, y in range(size) raises IndexError as soon as
\* a coordinate falls outside the image.
getpixel_in_range(im, size) == size <= im.w /\ size <= im.h

\* ImagingPutBand refuses an alpha band whose dimensions differ from the
\* image's ("images do not match").
putalpha_matches(im, size) == im.w = size /\ im.h = size

\* Lines 206-212: new_alpha = Image.new('L', (size, size), 0), filled by the
\* double loop from the image's alpha band a and the mask.
new_alpha(im, mask, size) ==
    [w |-> size, h |-> size,
     px |-> [y \in 1..size |-> [x \in 1..size |->
                new_alpha_value(im.px[y][x][4], mask.px[y][x])]]]

\* putalpha as it would be if the image were cut down to the band's size
\* instead of being checked against it.
putalpha_cropping(im, alpha) ==
    [status |-> "ok",
     img |-> [w |-> alpha.w, h |-> alpha.h,
              px |-> [y \in 1..alpha.h |-> [x \in 1..alpha.w |->
                         <<im.px[y][x][1], im.px[y][x][2], im.px[y][x][3],
                           alpha.px[y][x]>>]],
              ops |-> <<>>]]

\* img.putalpha(new_alpha): the band is checked, then written in place.
putalpha(im, alpha) ==
    IF ~putalpha_matches(im, alpha.w)
    THEN [status |-> "ValueError", img |-> im]
    ELSE [status |-> "ok",
          img |-> [w |-> im.w, h |-> im.h,
                   px |-> [y \in 1..im.h |-> [x \in 1..im.w |->
                              putalpha_pixel(im.px[y][x], alpha.px[y][x])]],
                   ops |-> <<>>]]

\* The band new_alpha of one call, on an image kept as operations: its value
\* at (x, y) is new_alpha_value of the image's alpha and the mask there.
PutAlpha(size, radius) ==
    [kind |-> "putalpha", name |-> "new_alpha", size |-> size, radius |-> radius]

\* img.putalpha(new_alpha) on an image kept as operations: the same check,
\* and the band is added to the operations.
putalpha_deferred(im, size, radius) ==
    IF ~putalpha_matches(im, size)
    THEN [status |-> "ValueError", img |-> im]
    ELSE [status |-> "ok",
          img |-> [im EXCEPT !.ops = Append(@, PutAlpha(size, radius))]]

\* The whole function. status is "ok" or the exception raised; img is the
\* caller's image afterwards (putalpha is the only statement that writes to
\* it); radius is the local corner_radius, -1 when line 200 is not reached.
\* box_check tells whether the installed Pillow refuses a box with x1 < x0
\* (releases from 9.5 on do, earlier ones draw nothing); the scripts do not
\* pin a release. It matters for size 0 only, where the box is [0, 0, -1, -1]:
\* without the check the loops run over no pixel and putalpha gets an empty
\* band, which it accepts on an empty image and refuses on any other.
apply_macos_rounding(im, size, box_check) ==
    IF size < 0
    THEN \* Image.new('L', (size, size), 0): "Width and height must be >= 0"
         [status |-> "ValueError", img |-> im, radius |-> -1]
    ELSE IF size - 1 < 0 /\ box_check
    THEN \* rounded_rectangle: "x1 must be greater than or equal to x0"
         [status |-> "ValueError", img |-> im, radius |-> corner_radius(size)]
    ELSE IF ~getpixel_in_range(im, size)
    THEN [status |-> "IndexError", img |-> im, radius |-> corner_radius(size)]
    ELSE LET mask == rounded_rectangle(size, corner_radius(size))
             put  == IF IsRaster(im)
                     THEN putalpha(im, new_alpha(im, mask, size))
                     ELSE putalpha_deferred(im, size, corner_radius(size))
         IN  [status |-> put.status, img |-> put.img,
              radius |-> corner_radius(size)]

----------------------------------------------------------------------------
(* make_transparent (process_ai_icon.py) *)

\* The test as it would be with >= in place of >.
is_near_white_inclusive(item, tolerance) ==
    /\ item[1] >= 255 - tolerance
    /\ item[2] >= 255 - tolerance
    /\ item[3] >= 255 - tolerance

\* The test of line 18 on one item of img.getdata().
is_near_white(item, tolerance) ==
    /\ item[1] > 255 - tolerance
    /\ item[2] > 255 - tolerance
    /\ item[3] > 255 - tolerance

make_transparent_pixel(item, tolerance) ==
    IF is_near_white(item, tolerance) THEN <<255, 255, 255, 0>> ELSE item

\* img.convert('RGBA') leaves an RGBA image as it is; putdata writes the
\* new pixels back in the same order.
make_transparent(im, tolerance) ==
    [w |-> im.w, h |-> im.h,
     px |-> [y \in 1..im.h |-> [x \in 1..im.w |->
                make_transparent_pixel(im.px[y][x], tolerance)]],
     ops |-> <<>>]

----------------------------------------------------------------------------
(* create_icon (generate_icon.py) *)
(* The canvas is kept as the list of the calls made on it, in the order    *)
(* they are made, Image.new first: a later shape paints over an earlier    *)
(* one. Shapes whose coordinates are integers carry them; the arc stamps   *)
(* and arrowheads, whose coordinates come from cos and sin, carry the      *)
(* centre, the angle and the lengths they are computed from.               *)

github_dark  == <<36, 41, 47, 255>>
github_green == <<46, 160, 67, 255>>
github_blue  == <<47, 129, 247, 255>>
white        == <<255, 255, 255, 255>>

\* int(base * scale) with scale = size / 1024: size / 1024 and its products
\* with the bases are exact in floating point, and int() truncates.
Scaled(base, size) == (base * size) \div ReferenceSize

Ellipse(name, x0, y0, x1, y1, fill) ==
    [kind |-> "ellipse", name |-> name, box |-> <<x0, y0, x1, y1>>, fill |-> fill]

Polygon(name, points, fill) ==
    [kind |-> "polygon", name |-> name, points |-> points, fill |-> fill]

\* The green gradient as it would be with t in place of 1 - t.
green_stamp_colour_reversed(t100) ==
    << (4600 - 10 * t100) \div 100,
       160 + (20 * t100) \div 100,
       67 + (30 * t100) \div 100,
       255 >>

\* Lines 135-138: t = (angle + 70) / 100 is kept as its numerator t100; the
\* three int() truncations are those of the floating-point expressions for
\* every t100 in 0..99.
green_stamp_colour(t100) ==
    << (4600 - 10 * t100) \div 100,
       160 + (20 * (100 - t100)) \div 100,
       67 + (30 * (100 - t100)) \div 100,
       255 >>

\* Lines 149-152, with t = (angle - 110) / 100.
blue_stamp_colour(t100) ==
    << 47 + (20 * (100 - t100)) \div 100,
       129 + (30 * (100 - t100)) \div 100,
       (24700 - 20 * t100) \div 100,
       255 >>

\* range(-70, 30, 1) and range(110, 210, 1), as sequences.
green_angles == [i \in 1..(30 - (-70)) |-> -70 + (i - 1)]
blue_angles  == [i \in 1..(210 - 110) |-> 110 + (i - 1)]

\* math.sin of a whole number of degrees from 0 to 90, times 10^9 and
\* rounded: SinTable[d + 1] is for d degrees.
SinTable ==
    << 0, 17452406, 34899497, 52335956, 69756474, 87155743,
       104528463, 121869343, 139173101, 156434465, 173648178, 190808995,
       207911691, 224951054, 241921896, 258819045, 275637356, 292371705,
       309016994, 325568154, 342020143, 358367950, 374606593, 390731128,
       406736643, 422618262, 438371147, 453990500, 469471563, 484809620,
       500000000, 515038075, 529919264, 544639035, 559192903, 573576436,
       587785252, 601815023, 615661475, 629320391, 642787610, 656059029,
       669130606, 681998360, 694658370, 707106781, 719339800, 731353702,
       743144825, 754709580, 766044443, 777145961, 788010754, 798635510,
       809016994, 819152044, 829037573, 838670568, 848048096, 857167301,
       866025404, 874619707, 882947593, 891006524, 898794046, 906307787,
       913545458, 920504853, 927183855, 933580426, 939692621, 945518576,
       951056516, 956304756, 961261696, 965925826, 970295726, 974370065,
       978147601, 981627183, 984807753, 987688341, 990268069, 992546152,
       994521895, 996194698, 997564050, 998629535, 999390827, 999847695,
       1000000000 >>

\* math.sin(math.radians(deg)) and math.cos(math.radians(deg)), times 10^9.
Sin9(deg) ==
    LET d == deg % 360
    IN  IF d <= 90 THEN SinTable[d + 1]
        ELSE IF d <= 180 THEN SinTable[180 - d + 1]
        ELSE IF d <= 270 THEN -SinTable[d - 180 + 1]
        ELSE -SinTable[360 - d + 1]

Cos9(deg) == Sin9(deg + 90)

\* The integer part of (m1 * c1 + m2 * c2) / (k * 10^9) for c1, c2 out of
\* Sin9 and Cos9, computed in two halves of c1 and c2 to stay within 32
\* bits. For every size from 0 to 1024 it is the int() of the coordinates
\* create_icon computes in floating point (they are positive).
ScaledTrig(m1, c1, m2, c2, k) ==
    ((m1 * (c1 \div 10000) + m2 * (c2 \div 10000))
        + ((m1 * (c1 % 10000) + m2 * (c2 % 10000)) \div 10000))
    \div (k * 100000)

\* The box [x - w, y - w, x + w, y + w] of an arc stamp, as draw.ellipse
\* takes it: x = cx + arc_radius * cos(rad), y = cy + arc_radius * sin(rad),
\* each coordinate cut to an integer.
StampBox(cx, cy, angle, arc_radius, w) ==
    LET x == ScaledTrig(arc_radius, Cos9(angle), 0, 0, 1)
        y == ScaledTrig(arc_radius, Sin9(angle), 0, 0, 1)
    IN  <<cx - w + x, cy - w + y, cx + w + x, cy + w + y>>

\* One arc stamp: the disc of half-width w centred on the point of the
\* circle of radius arc_radius at the given angle.
Stamp(name, cx, cy, angle, t100, arc_radius, w, fill) ==
    [kind |-> "stamp", name |-> name, cx |-> cx, cy |-> cy,
     angle |-> angle, t100 |-> t100,
     arc_radius |-> arc_radius, w |-> w,
     box |-> StampBox(cx, cy, angle, arc_radius, w), fill |-> fill]

\* The vertex of an arrowhead at the given offset from tip_angle: the tip
\* (offset 0) is arrow_size away from the point (ax, ay) of the arc, the
\* two others arrow_size * 0.55; draw.polygon cuts the coordinates to
\* integers.
ArrowPoint(cx, cy, angle, offset, arc_radius, arrow_size) ==
    LET a == angle + 90 + offset
    IN  IF offset = 0
        THEN <<cx + ScaledTrig(arc_radius, Cos9(angle), arrow_size, Cos9(a), 1),
               cy + ScaledTrig(arc_radius, Sin9(angle), arrow_size, Sin9(a), 1)>>
        ELSE <<cx + ScaledTrig(20 * arc_radius, Cos9(angle),
                               11 * arrow_size, Cos9(a), 20),
               cy + ScaledTrig(20 * arc_radius, Sin9(angle),
                               11 * arrow_size, Sin9(a), 20)>>

\* One arrowhead: the triangle around the point of the arc at the given
\* angle, its vertices at the offsets 0, 135 and 225.
Arrowhead(name, cx, cy, angle, arc_radius, arrow_size, fill) ==
    [kind |-> "arrowhead", name |-> name, cx |-> cx, cy |-> cy,
     angle |-> angle, tip_angle |-> angle + 90, arc_radius |-> arc_radius,
     arrow_size |-> arrow_size,
     points |-> << ArrowPoint(cx, cy, angle, 0, arc_radius, arrow_size),
                   ArrowPoint(cx, cy, angle, 135, arc_radius, arrow_size),
                   ArrowPoint(cx, cy, angle, 225, arc_radius, arrow_size) >>,
     fill |-> fill]

\* The draw calls of create_icon, for size >= 0.
icon_ops(size) ==
    LET cx == size \div 2
        cy == size \div 2
        S(base) == Scaled(base, size)
        head_radius == S(140)
        head_cx == cx
        head_cy == cy - S(10)
        ear_height == S(50)
        body_w == S(100)
        body_h == S(70)
        body_top == head_cy + head_radius - S(20)
        eye_radius == S(28)
        eye_y == head_cy + S(10)
        eye_spacing == S(60)
        pupil_radius == S(10)
        pupil_offset_x == S(5)
        pupil_offset_y == S(3)
        highlight_r == S(6)
        arc_radius == S(220)
        arc_width == S(26)
        arrow_size == S(45)
        w == arc_width \div 2
    IN  << Ellipse("head", head_cx - head_radius, head_cy - head_radius,
                   head_cx + head_radius, head_cy + head_radius, github_dark),
           Polygon("left_ear",
                   << <<head_cx - head_radius + S(25), head_cy - head_radius + S(35)>>,
                      <<head_cx - head_radius + S(50), head_cy - head_radius - ear_height>>,
                      <<head_cx - head_radius + S(80), head_cy - head_radius + S(25)>> >>,
                   github_dark),
           Polygon("right_ear",
                   << <<head_cx + head_radius - S(25), head_cy - head_radius + S(35)>>,
                      <<head_cx + head_radius - S(50), head_cy - head_radius - ear_height>>,
                      <<head_cx + head_radius - S(80), head_cy - head_radius + S(25)>> >>,
                   github_dark),
           Ellipse("body", head_cx - body_w, body_top,
                   head_cx + body_w, body_top + body_h * 2, github_dark),
           Ellipse("left_eye", head_cx - eye_spacing - eye_radius, eye_y - eye_radius,
                   head_cx - eye_spacing + eye_radius, eye_y + eye_radius, white),
           Ellipse("right_eye", head_cx + eye_spacing - eye_radius, eye_y - eye_radius,
                   head_cx + eye_spacing + eye_radius, eye_y + eye_radius, white),
           Ellipse("left_pupil",
                   head_cx - eye_spacing + pupil_offset_x - pupil_radius,
                   eye_y + pupil_offset_y - pupil_radius,
                   head_cx - eye_spacing + pupil_offset_x + pupil_radius,
                   eye_y + pupil_offset_y + pupil_radius, github_dark),
           Ellipse("right_pupil",
                   head_cx + eye_spacing + pupil_offset_x - pupil_radius,
                   eye_y + pupil_offset_y - pupil_radius,
                   head_cx + eye_spacing + pupil_offset_x + pupil_radius,
                   eye_y + pupil_offset_y + pupil_radius, github_dark),
           Ellipse("left_highlight",
                   head_cx - eye_spacing - S(8) - highlight_r,
                   eye_y - S(8) - highlight_r,
                   head_cx - eye_spacing - S(8) + highlight_r,
                   eye_y - S(8) + highlight_r, white),
           Ellipse("right_highlight",
                   head_cx + eye_spacing - S(8) - highlight_r,
                   eye_y - S(8) - highlight_r,
                   head_cx + eye_spacing - S(8) + highlight_r,
                   eye_y - S(8) + highlight_r, white) >>
        \o [i \in 1..Len(green_angles) |->
               Stamp("green_arc", cx, cy, green_angles[i], green_angles[i] + 70,
                     arc_radius, w, green_stamp_colour(green_angles[i] + 70))]
        \o [i \in 1..Len(blue_angles) |->
               Stamp("blue_arc", cx, cy, blue_angles[i], blue_angles[i] - 110,
                     arc_radius, w, blue_stamp_colour(blue_angles[i] - 110))]
        \o << Arrowhead("green_arrowhead", cx, cy, 30, arc_radius, arrow_size,
                        github_green),
              Arrowhead("blue_arrowhead", cx, cy, 210, arc_radius, arrow_size,
                        github_blue) >>

\* Image.new('RGBA', (size, size), (0, 0, 0, 0)), the first call on the canvas.
NewImage == [kind |-> "new", name |-> "canvas", fill |-> <<0, 0, 0, 0>>]

\* No image is held: generate_icon.py's main before create_icon has returned.
NoImage ==
    [w |-> 0, h |-> 0, px |-> <<>>, ops |-> << [kind |-> "none", name |-> "none"] >>]

\* The whole function: Image.new('RGBA', (size, size)) raises ValueError for
\* a negative size and makes an empty image for size 0, on which every draw
\* call is a no-op; nothing else in create_icon inspects size.
create_icon(size) ==
    IF size < 0
    THEN [status |-> "ValueError", img |-> NoImage]
    ELSE [status |-> "ok",
          img |-> [w |-> size, h |-> size, px |-> <<>>,
                   ops |-> <<NewImage>> \o icon_ops(size)]]

----------------------------------------------------------------------------
(* The pixels of an image kept as operations *)

\* draw.ellipse paints (x, y): the ellipses of the face and the arc stamps.
Covers(op, x, y) ==
    /\ op.kind \in {"ellipse", "stamp"}
    /\ op.box[1] <= x /\ x <= op.box[3]
    /\ op.box[2] <= y /\ y <= op.box[4]
    /\ EllipseCovers(op.box[1], op.box[2], op.box[3], op.box[4],
                     QuarterRows(op.box[3] - op.box[1], op.box[4] - op.box[2]),
                     x, y)

\* On which side of the line from a to b the point (x, y) lies.
Cross(a, b, x, y) == (b[1] - a[1]) * (y - a[2]) - (b[2] - a[2]) * (x - a[1])

\* (x, y) lies in the triangle, its edges included.
InTriangle(pts, x, y) ==
    LET c1 == Cross(pts[1], pts[2], x, y)
        c2 == Cross(pts[2], pts[3], x, y)
        c3 == Cross(pts[3], pts[1], x, y)
    IN  /\ \E i \in 1..3 : pts[i][1] <= x
        /\ \E i \in 1..3 : x <= pts[i][1]
        /\ \E i \in 1..3 : pts[i][2] <= y
        /\ \E i \in 1..3 : y <= pts[i][2]
        /\ \/ c1 >= 0 /\ c2 >= 0 /\ c3 >= 0
           \/ c1 <= 0 /\ c2 <= 0 /\ c3 <= 0

\* draw.polygon paints (x, y) whatever the rounding of the scan line's ends:
\* the pixel is strictly inside the triangle, on a row that holds no vertex.
PolygonCovers(op, x, y) ==
    LET pts == op.points
        c1 == Cross(pts[1], pts[2], x, y)
        c2 == Cross(pts[2], pts[3], x, y)
        c3 == Cross(pts[3], pts[1], x, y)
    IN  /\ op.kind \in {"polygon", "arrowhead"}
        /\ \A i \in 1..3 : pts[i][2] # y
        /\ \/ c1 > 0 /\ c2 > 0 /\ c3 > 0
           \/ c1 < 0 /\ c2 < 0 /\ c3 < 0

\* draw.polygon may paint (x, y), depending on how the release at hand
\* rounds the ends of the scan lines and treats the vertex rows: the pixel
\* or one next to it lies in the triangle.
PolygonMayCover(op, x, y) ==
    /\ op.kind \in {"polygon", "arrowhead"}
    /\ \E dx \in {-1, 0, 1} : \E dy \in {-1, 0, 1} :
           InTriangle(op.points, x + dx, y + dy)

\* The values the pixel (x, y) can have after the draw calls. The last call
\* that paints it for certain decides (fills are opaque and replace the
\* pixel; the first call, Image.new or resize, fills every pixel); a later
\* polygon that may paint it adds its fill.
drawn_pixels(im, x, y) ==
    LET certain == {1} \cup {i \in 2..Len(im.ops) :
                                Covers(im.ops[i], x, y)
                                    \/ PolygonCovers(im.ops[i], x, y)}
        top     == CHOOSE i \in certain : \A j \in certain : j <= i
    IN  {im.ops[top].fill}
            \cup {im.ops[i].fill : i \in {j \in (top + 1)..Len(im.ops) :
                                              PolygonMayCover(im.ops[j], x, y)}}

\* The value at (x, y) of the mask of one apply_macos_rounding call.
mask_value(size, radius, x, y) ==
    IF rounded_rectangle_covers(size, radius, corner_rows(size, radius), x, y)
    THEN 255 ELSE 0

\* The alpha bands put on the image, in the order of the calls; they follow
\* the draw calls, which are all made inside create_icon.
Bands(im) == SelectSeq(im.ops, LAMBDA op : op.kind = "putalpha")

\* The pixel p after the bands from the i-th on have been put on it.
RECURSIVE banded_pixel(_, _, _, _, _)
banded_pixel(p, bands, i, x, y) ==
    IF i > Len(bands) THEN p
    ELSE banded_pixel(
             putalpha_pixel(p, new_alpha_value(
                 p[4], mask_value(bands[i].size, bands[i].radius, x, y))),
             bands, i + 1, x, y)

\* A drawn pixel d at (x, y) after the bands of the image.
Banded(im, d, x, y) == banded_pixel(d, Bands(im), 1, x, y)

\* The values img.getpixel((x, y)) can return: the pixel held by a raster
\* image; else the drawn values after the bands.
Pixels(im, x, y) ==
    IF IsRaster(im) THEN {getpixel(im, x, y)}
    ELSE {Banded(im, d, x, y) : d \in drawn_pixels(im, x, y)}

----------------------------------------------------------------------------
(* The calls *)

\* Source images: every w x h up to MaxSize, and the 512 x 512 icon.
Sources ==
    {SourceImage(w, h, seed) : w \in 0..MaxSize, h \in 0..MaxSize, seed \in 0..MaxSeed}
    \cup {SourceImage(IconSize512, IconSize512, seed) : seed \in 0..MaxSeed}

\* Size arguments: invalid ones, every size up to MaxSize, and the sizes of
\* the icon set (sizes_1x, their 2x versions and the master).
Sizes == (-1..MaxSize) \cup {16, 32, 64, 128, 256, IconSize512, ReferenceSize}

\* An image wider than MaxSize is rounded at its own size only; mismatching
\* sizes are tried on the small images.
ArgSizes(im) == IF im.w > MaxSize THEN {im.w} ELSE Sizes

Tolerances == {DefaultTolerance, MainTolerance}

IconSizes == {-1, 0, 16, 32, 64, 128, 256, IconSize512, ReferenceSize}

Last == hist[Len(hist)]

\* The number of calls of create_icon, make_transparent and
\* apply_macos_rounding made so far.
CallCount == Cardinality({i \in 1..Len(hist) : hist[i].op # "resize"})

\* process_ai_icon.py starts from the image Image.open returned,
\* generate_icon.py without an image.
Init ==
    /\ img \in Sources \cup {NoImage}
    /\ pre = img
    /\ hist = <<>>

\* The answers of the installed Pillow to a box with x1 < x0 that can be
\* told apart: both for size 0 on an empty image, unless an earlier call of
\* the run has shown which one it is.
BoxChecks(im, size) ==
    IF size = 0 /\ im.w = 0 /\ im.h = 0
    THEN {b \in BOOLEAN :
            \A i \in 1..Len(hist) :
                (hist[i].op = "apply_macos_rounding" /\ hist[i].arg = 0)
                    => (b <=> hist[i].status = "ValueError")}
    ELSE {TRUE}

ApplyRounding(size) ==
    /\ CallCount < MaxCalls
    /\ img # NoImage
    /\ \E box_check \in BoxChecks(img, size) :
           LET res == apply_macos_rounding(img, size, box_check)
           IN  /\ img' = res.img
               /\ hist' = Append(hist, [op |-> "apply_macos_rounding",
                                        arg |-> size, status |-> res.status,
                                        radius |-> res.radius])
    /\ pre' = img

MakeTransparent(tolerance) ==
    /\ CallCount < MaxCalls
    /\ img # NoImage
    /\ IsRaster(img) /\ img.w <= MaxSize
    /\ img' = make_transparent(img, tolerance)
    /\ hist' = Append(hist, [op |-> "make_transparent", arg |-> tolerance,
                             status |-> "ok", radius |-> -1])
    /\ pre' = img

\* process_ai_icon.py, lines 63-68: after make_transparent on the image that
\* was opened, an image that is not 1024 x 1024 is replaced by its resized
\* version. The step is taken on the uniform images, whose resampling is
\* known without the filter's weights.
Resize ==
    /\ Len(hist) = 1 /\ Last.op = "make_transparent"
    /\ Uniform(img)
    /\ <<img.w, img.h>> # <<ReferenceSize, ReferenceSize>>
    /\ img' = resize(img, ReferenceSize, ReferenceSize)
    /\ hist' = Append(hist, [op |-> "resize", arg |-> ReferenceSize,
                             status |-> "ok", radius |-> -1])
    /\ pre' = img

\* generate_icon.py, line 228: master = create_icon(size) is the first
\* statement that makes an image; when it raises, none is held.
CreateIcon(size) ==
    /\ hist = <<>>
    /\ img = NoImage
    /\ LET res == create_icon(size)
       IN  /\ img' = res.img
           /\ hist' = <<[op |-> "create_icon", arg |-> size,
                         status |-> res.status, radius |-> -1]>>
    /\ pre' = img

Next ==
    \/ \E size \in ArgSizes(img) : ApplyRounding(size)
    \/ \E tolerance \in Tolerances : MakeTransparent(tolerance)
    \/ Resize
    \/ \E size \in IconSizes : CreateIcon(size)

Spec == Init /\ [][Next]_vars

----------------------------------------------------------------------------
(* Properties *)

\* The coordinates at which the properties read an image kept as
\* operations: the corners, points on and inside the corner arcs, and the
\* centre.
ProbeCoords(n) ==
    LET r == corner_radius(n)
    IN  {0, r \div 4, r, n \div 2, n - 1 - r, n - 1 - (r \div 4), n - 1}
            \cap (0..(n - 1))

\* The pixels read: those coordinates, and the places at which the 1024
\* canvas has an ear (424, 365), an ear's vertex (397, 397) and the green
\* arc (732, 512).
Probes(im) ==
    (ProbeCoords(im.w) \X ProbeCoords(im.h))
        \cup {p \in {<<(424 * im.w) \div ReferenceSize, (365 * im.h) \div ReferenceSize>>,
                      <<(397 * im.w) \div ReferenceSize, (397 * im.h) \div ReferenceSize>>,
                      <<(732 * im.w) \div ReferenceSize, (512 * im.h) \div ReferenceSize>>} :
                 p[1] < im.w /\ p[2] < im.h}

\* The last call was apply_macos_rounding and it returned.
Rounded == Len(hist) > 0 /\ Last.op = "apply_macos_rounding" /\ Last.status = "ok"

\* The mask the last apply_macos_rounding call drew.
LastMask == rounded_rectangle(Last.arg, Last.radius)

\* C1 (alpha monotonicity): after apply_macos_rounding(img, size) on a
\* size x size image, the alpha of every pixel is the minimum of its alpha
\* before the call and the mask's value there, hence never larger than before.
AlphaMonotonicity ==
    Rounded =>
        IF IsRaster(img)
        THEN LET mask == LastMask
             IN  \A y \in 1..img.h : \A x \in 1..img.w :
                     /\ img.px[y][x][4] = Min(pre.px[y][x][4], mask.px[y][x])
                     /\ img.px[y][x][4] <= pre.px[y][x][4]
        ELSE \A p \in Probes(img) : \A d \in drawn_pixels(pre, p[1], p[2]) :
                 LET after  == Banded(img, d, p[1], p[2])[4]
                     before == Banded(pre, d, p[1], p[2])[4]
                 IN  /\ after = Min(before,
                                    mask_value(Last.arg, Last.radius, p[1], p[2]))
                     /\ after <= before

\* The mask clipped an opaque pixel and let a translucent one through.
AlphaMonotonicityWitness ==
    /\ Rounded
    /\ IsRaster(img)
    /\ \E y \in 1..img.h : \E x \in 1..img.w :
           pre.px[y][x][4] = 255 /\ img.px[y][x][4] = 0
    /\ \E y \in 1..img.h : \E x \in 1..img.w :
           pre.px[y][x][4] = 128 /\ img.px[y][x][4] = 128

\* The last two calls were apply_macos_rounding with the same size, and both
\* returned.
RoundedTwice ==
    /\ Len(hist) >= 2
    /\ Rounded
    /\ hist[Len(hist) - 1].op = "apply_macos_rounding"
    /\ hist[Len(hist) - 1].status = "ok"
    /\ hist[Len(hist) - 1].arg = Last.arg

\* C2 (idempotence): applying apply_macos_rounding a second time with the
\* same size leaves the image as the first application made it, in all four
\* channels of every pixel.
Idempotence ==
    RoundedTwice =>
        IF IsRaster(img)
        THEN img = pre
        ELSE /\ img.w = pre.w /\ img.h = pre.h
             /\ \A p \in Probes(img) : \A d \in drawn_pixels(pre, p[1], p[2]) :
                    Banded(img, d, p[1], p[2]) = Banded(pre, d, p[1], p[2])

\* The first application had clipped a corner (a pixel that is transparent
\* but not the palette's transparent white) and kept a translucent pixel.
IdempotenceWitness ==
    /\ RoundedTwice
    /\ IsRaster(pre)
    /\ Last.radius >= 1
    /\ pre.px[1][1][4] = 0 /\ pre.px[1][1][1] # 255
    /\ \E y \in 1..pre.h : \E x \in 1..pre.w : pre.px[y][x][4] = 128

\* C3 (colour channels): apply_macos_rounding returns every pixel with the
\* r, g and b it had before the call; only alpha may differ.
ColourChannelsUnchanged ==
    Rounded =>
        IF IsRaster(img)
        THEN \A y \in 1..img.h : \A x \in 1..img.w :
                 /\ img.px[y][x][1] = pre.px[y][x][1]
                 /\ img.px[y][x][2] = pre.px[y][x][2]
                 /\ img.px[y][x][3] = pre.px[y][x][3]
        ELSE \A p \in Probes(img) : \A d \in drawn_pixels(pre, p[1], p[2]) :
                 LET after  == Banded(img, d, p[1], p[2])
                     before == Banded(pre, d, p[1], p[2])
                 IN  /\ after[1] = before[1]
                     /\ after[2] = before[2]
                     /\ after[3] = before[3]

\* A clipped pixel kept its colour while its alpha went from 255 to 0.
ColourChannelsWitness ==
    /\ Rounded
    /\ IsRaster(img)
    /\ \E y \in 1..img.h : \E x \in 1..img.w :
           /\ pre.px[y][x] = <<200, 200, 200, 255>>
           /\ img.px[y][x] = <<200, 200, 200, 0>>

\* C4 (corner transparency): after apply_macos_rounding at size 512 the
\* pixels (0, 0), (511, 0), (0, 511) and (511, 511) have alpha 0, whatever
\* their alpha was.
CornerTransparency ==
    (Rounded /\ Last.arg = IconSize512) =>
        \A x \in {0, IconSize512 - 1} : \A y \in {0, IconSize512 - 1} :
            \A q \in Pixels(img, x, y) : q[4] = 0

\* A 512 x 512 image whose four corners were not transparent was rounded.
CornerTransparencyWitness ==
    /\ Rounded /\ Last.arg = IconSize512
    /\ Len(hist) = 1
    /\ IsRaster(pre)
    /\ \A x \in {0, IconSize512 - 1} : \A y \in {0, IconSize512 - 1} :
           getpixel(pre, x, y)[4] > 0
    /\ getpixel(img, 0, 0)[4] = 0

\* The last call was make_transparent.
MadeTransparent == Len(hist) > 0 /\ Last.op = "make_transparent"

\* C5 (tolerance-based transparency): make_transparent turns a pixel into
\* (255, 255, 255, 0) when its r, g and b are all above 255 - tolerance and
\* leaves it as it was otherwise; with tolerance 40, (250, 250, 250) becomes
\* (255, 255, 255, 0) and (200, 200, 200) stays.
ToleranceTransparency ==
    MadeTransparent =>
        /\ img.w = pre.w /\ img.h = pre.h
        /\ \A y \in 1..img.h : \A x \in 1..img.w :
               LET p == pre.px[y][x]
                   q == img.px[y][x]
                   limit == 255 - Last.arg
               IN  /\ (p[1] > limit /\ p[2] > limit /\ p[3] > limit)
                          => q = <<255, 255, 255, 0>>
                   /\ ~(p[1] > limit /\ p[2] > limit /\ p[3] > limit)
                          => q = p
                   /\ (Last.arg = MainTolerance /\ p[1] = 250 /\ p[2] = 250 /\ p[3] = 250)
                          => q = <<255, 255, 255, 0>>
                   /\ (Last.arg = MainTolerance /\ p[1] = 200 /\ p[2] = 200 /\ p[3] = 200)
                          => q = p

\* make_transparent(img, 40) met an opaque (250, 250, 250), an opaque
\* (200, 200, 200) and a pixel with a channel exactly at 255 - 40.
ToleranceTransparencyWitness ==
    /\ MadeTransparent /\ Last.arg = MainTolerance
    /\ \E y \in 1..img.h : \E x \in 1..img.w :
           pre.px[y][x] = <<250, 250, 250, 255>> /\ img.px[y][x] = <<255, 255, 255, 0>>
    /\ \E y \in 1..img.h : \E x \in 1..img.w :
           pre.px[y][x] = <<200, 200, 200, 255>> /\ img.px[y][x] = <<200, 200, 200, 255>>
    /\ \E y \in 1..img.h : \E x \in 1..img.w :
           pre.px[y][x][1] = 255 - MainTolerance /\ img.px[y][x] = pre.px[y][x]

\* The last call was apply_macos_rounding with a size that is not both the
\* width and the height of the image it was given.
Mismatched ==
    /\ Len(hist) > 0
    /\ Last.op = "apply_macos_rounding"
    /\ (Last.arg # pre.w \/ Last.arg # pre.h)

\* C8 (dimension mismatch): apply_macos_rounding on an image whose width or
\* height differs from size raises an error instead of returning a cropped
\* or padded result, and the image is as it was before the call.
DimensionMismatchRejected ==
    Mismatched =>
        /\ Last.status \in {"ValueError", "IndexError"}
        /\ img = pre

\* Both directions happened on one image: a size smaller than the image
\* (every pixel of the size x size crop is read, then putalpha refuses the
\* band) after a size larger than it (getpixel runs off the image).
DimensionMismatchWitness ==
    /\ Len(hist) = 2
    /\ Mismatched
    /\ IsRaster(pre)
    /\ Last.arg >= 1 /\ Last.arg < pre.w /\ Last.arg < pre.h
    /\ Last.status = "ValueError"
    /\ hist[1].op = "apply_macos_rounding"
    /\ hist[1].arg > pre.w /\ hist[1].arg > pre.h
    /\ hist[1].status = "IndexError"
    /\ \E y \in 1..pre.h : \E x \in 1..pre.w : pre.px[y][x][4] = 255

\* The apply_macos_rounding calls that got as far as computing the radius.
RadiusCalls ==
    {i \in 1..Len(hist) : hist[i].op = "apply_macos_rounding" /\ hist[i].arg >= 0}

\* C9 as stated: the corner radius is size * 0.2237 rounded to the nearest
\* integer, and at most size / 2.
CornerRadiusRoundsToNearest ==
    \A i \in RadiusCalls :
        /\ hist[i].radius = (hist[i].arg * 2237 + 5000) \div 10000
        /\ 2 * hist[i].radius <= hist[i].arg

\* C9 (amended): the corner radius is size * 0.2237 truncated to an integer
\* (its floor), and at most size / 2.
CornerRadiusTruncates ==
    \A i \in RadiusCalls :
        /\ hist[i].radius = (hist[i].arg * 2237) \div 10000
        /\ 2 * hist[i].radius <= hist[i].arg

\* Size 512 was rounded with radius 114, where the nearest integer to
\* 114.5344 is 115.
CornerRadiusWitness ==
    /\ Rounded
    /\ Last.arg = IconSize512
    /\ Last.radius = 114
    /\ (Last.arg * 2237 + 5000) \div 10000 = 115

\* The image held is a canvas create_icon returned (rounded or not).
Drawn == img.ops # <<>> /\ img.ops[1].kind = "new"

\* The stamps of one sweep, as positions in the list of draw calls.
StampsOf(name) ==
    {i \in 1..Len(img.ops) : img.ops[i].kind = "stamp" /\ img.ops[i].name = name}

\* A sweep has a stamp with blend numerator t100 and that colour.
HasStamp(name, t100, colour) ==
    \E i \in StampsOf(name) : img.ops[i].t100 = t100 /\ img.ops[i].fill = colour

\* C6 as stated: in each sweep every stamp's t is in [0, 1], the stamp
\* sampled at t = 0 has the sweep's first endpoint colour and the stamp
\* sampled at t = 1 has its second endpoint colour.
GradientEndpoints ==
    Drawn =>
        /\ \A i \in StampsOf("green_arc") \cup StampsOf("blue_arc") :
               img.ops[i].t100 \in 0..100
        /\ HasStamp("green_arc", 0, <<46, 180, 97, 255>>)
        /\ HasStamp("green_arc", 100, <<36, 160, 67, 255>>)
        /\ HasStamp("blue_arc", 0, <<67, 159, 247, 255>>)
        /\ HasStamp("blue_arc", 100, <<47, 129, 227, 255>>)

\* C6 (amended): in each sweep every stamp's t is in [0, 0.99], t = 1 is not
\* sampled; the first stamp (t = 0) has the sweep's first endpoint colour and
\* the last stamp (t = 0.99) has, after truncation, its second endpoint
\* colour, the value of the blend at t = 1.
GradientEndpointsSampled ==
    Drawn =>
        /\ \A i \in StampsOf("green_arc") \cup StampsOf("blue_arc") :
               img.ops[i].t100 \in 0..99
        /\ HasStamp("green_arc", 0, <<46, 180, 97, 255>>)
        /\ HasStamp("green_arc", 99, <<36, 160, 67, 255>>)
        /\ HasStamp("blue_arc", 0, <<67, 159, 247, 255>>)
        /\ HasStamp("blue_arc", 99, <<47, 129, 227, 255>>)

\* The master icon was drawn: both sweeps have their 100 stamps, the last
\* ones at angles 29 and 209.
GradientEndpointsWitness ==
    /\ Drawn /\ img.w = ReferenceSize
    /\ Last.op = "create_icon"
    /\ Cardinality(StampsOf("green_arc")) = 100
    /\ Cardinality(StampsOf("blue_arc")) = 100
    /\ \E i \in StampsOf("green_arc") : img.ops[i].angle = 29 /\ img.ops[i].t100 = 99
    /\ \E i \in StampsOf("blue_arc") : img.ops[i].angle = 209 /\ img.ops[i].t100 = 99

\* C7: create_icon and apply_macos_rounding called with a size <= 0 raise an
\* error, and no canvas, not even an empty one, is returned.
InvalidSizeRejected ==
    \A i \in 1..Len(hist) :
        (hist[i].op \in {"create_icon", "apply_macos_rounding"} /\ hist[i].arg <= 0)
            => hist[i].status = "ValueError"

\* The position of a named draw call, and the pixels an ellipse call paints.
OpNamed(name) == CHOOSE i \in 1..Len(img.ops) : img.ops[i].name = name

Painted(i) ==
    LET box  == img.ops[i].box
        rows == QuarterRows(box[3] - box[1], box[4] - box[2])
    IN  {p \in (box[1]..box[3]) \X (box[2]..box[4]) :
            EllipseCovers(box[1], box[2], box[3], box[4], rows, p[1], p[2])}

\* One eye: drawn in the order eye, pupil, highlight; the pupil's pixels are
\* pixels of the eye, and the highlight's pixels are pixels of the pupil.
Nested(eye, pupil, highlight) ==
    /\ OpNamed(eye) < OpNamed(pupil) /\ OpNamed(pupil) < OpNamed(highlight)
    /\ img.ops[OpNamed(eye)].fill = white
    /\ img.ops[OpNamed(pupil)].fill = github_dark
    /\ img.ops[OpNamed(highlight)].fill = white
    /\ Painted(OpNamed(pupil)) \subseteq Painted(OpNamed(eye))
    /\ Painted(OpNamed(highlight)) # {}
    /\ Painted(OpNamed(highlight)) \subseteq Painted(OpNamed(pupil))

\* C10: at the reference size 1024 each pupil lies inside its eye and each
\* highlight within its pupil, so the highlight is a white disc over pixels
\* the pupil had painted in the silhouette colour.
EyeNesting ==
    (Drawn /\ img.w = ReferenceSize) =>
        /\ Nested("left_eye", "left_pupil", "left_highlight")
        /\ Nested("right_eye", "right_pupil", "right_highlight")

====
